---- MODULE Spec2Model ----
(***************************************************************************)
(* Model of the RandR gamma method of redshift-rs                          *)
(* (src/src/gamma/gamma_randr.rs): the X server's per-CRTC gamma tables,   *)
(* the RandrState registry of Crtc records, and the operations init,       *)
(* start, set_temperature and restore; and of the dummy gamma method       *)
(* (src/src/gamma_method.rs), which only prints.                           *)
(***************************************************************************)
EXTENDS Integers, Sequences, FiniteSets, TLC

\* ------------------------------------------------------------------ bounds
MaxCrtcs == 2        \* CRTC handles the server knows: 1..MaxCrtcs
MaxRampSize == 4     \* gamma table sizes a CRTC may have: 0..MaxRampSize
MaxMajor == 2        \* reported RandR major versions: 0..MaxMajor
MaxMinor == 4        \* reported RandR minor versions: 0..MaxMinor
MaxCalls == 4        \* start, set_temperature and restore calls per behaviour

\* ------------------------------------------------------- program constants
RANDR_MAJOR_VERSION == 1
RANDR_MINOR_VERSION == 3
U16Max == 65535

CrtcIds == 1..MaxCrtcs
Channels == 1..3

VARIABLES
    phase,      \* "none" before init(), "ready" once init() returned a RandrState, "failed" when
                \* it returned an error, "dummy" once DummyMethod's init() returned a DummyMethod
    stdout,     \* the lines printed so far
    winDummy,   \* TRUE once the dummy window was created
    hw,         \* the server's gamma table of every CRTC: id -> <<red, green, blue>>
    crtcs,      \* RandrState.crtcs
    lastOp,     \* the most recent call: init, dummy_init, start, set_temperature or restore
    lastRes,    \* its Result
    reqs,       \* the protocol requests it issued, in order
    bases,      \* set_temperature: the scratch contents of each visited CRTC before colorramp::fill
    lastArg,    \* its inputs and the server's answers to it
    pre,        \* hw and crtcs as they were when it was called
    prev,       \* the call before it, when that was a restore: its Result and requests
    started,    \* the most recent start(): its Result and hw as it was when called
    nStart,     \* number of start() calls so far
    nCalls,     \* number of GammaMethod calls so far
    ramp        \* the base ramp loop of one CRTC taken step by step: ramp size n, index i,
                \* the value before and after the conversion to u16, the value at i - 1

vars == <<phase, stdout, winDummy, hw, crtcs, lastOp, lastRes, reqs, bases, lastArg,
          pre, prev, started, nStart, nCalls, ramp>>

\* ----------------------------------------------------------------- errors
OkRes == [kind |-> "Ok", major |-> 0, minor |-> 0]
\* no call made yet
NoneRes == [kind |-> "None", major |-> 0, minor |-> 0]
\* RandrError::generic
GenericErr == [kind |-> "Generic", major |-> 0, minor |-> 0]
\* RandrError::conn
ConnErr == [kind |-> "Conn", major |-> 0, minor |-> 0]
\* RandrError::unsupported_version
UnsupportedVersion(major, minor) == [kind |-> "UnsupportedVersion", major |-> major, minor |-> minor]

\* ------------------------------------------------------------ pure helpers
\* f64 -> u16 conversion of a non-negative value (saturating `as`); every
\* value the base ramp loop converts is below 2^16, since i < r.len() and
\* r.len() = ramp_size
AsU16(x) == IF x > U16Max THEN U16Max ELSE x

\* ((i as f64 / ramp_size) * u16_max1), truncated toward zero by the cast.
\* i / ramp_size is rounded to 53 bits and the product with 2^16 is exact;
\* a non-integer exact quotient lies at least 1/ramp_size from an integer,
\* so the truncation equals the integer quotient below.
\* (i * 2^16) \div d for 0 <= i <= d, taken in two steps of 2^8 so that no
\* intermediate product leaves 32 bits
ScaledQuotient(i, d) ==
    LET a == i * 256
    IN  (a \div d) * 256 + ((a % d) * 256) \div d

\* mutant: the index is scaled by ramp_size - 1, so that the last entry is
\* the full scale
BaseValueFullScale(i, ramp_size) ==
    IF ramp_size = 1 THEN 0 ELSE ScaledQuotient(i, ramp_size - 1)

\* the value before the conversion to u16
BaseValueRaw(i, ramp_size) == ScaledQuotient(i, ramp_size)

\* mutant: the scale is u16::max_value() instead of u16::max_value() + 1
BaseValueMax(i, ramp_size) == AsU16((i * U16Max) \div ramp_size)

BaseValue(i, ramp_size) == AsU16(BaseValueRaw(i, ramp_size))

\* mutant: the loop is missing, fill works on what scratch held
BaseRampsStale(crtc) == crtc.scratch

\* the loop `for i in 0 .. r.len()` over the three scratch channels
BaseRamps(crtc) ==
    LET len == Len(crtc.scratch[1])
        ch  == [k \in 1..len |-> BaseValue(k - 1, crtc.ramp_size)]
    IN  <<ch, ch, ch>>

\* ColorSetting values explored
Settings == {"neutral", "warm"}

\* per-channel gain of a setting, in 255ths
WhitePoint(setting) ==
    IF setting = "neutral" THEN <<255, 255, 255>> ELSE <<255, 180, 107>>

\* colorramp::fill(r, g, b, setting, ramp_size): scales every channel in place
Fill(ramps, setting, size) ==
    [c \in Channels |->
        [k \in 1..Len(ramps[c]) |-> (ramps[c][k] * WhitePoint(setting)[c]) \div 255]]

\* mutant: `&&` for `||` in the version test
QueryVersionAnd(replyOk, major, minor) ==
    IF ~replyOk THEN GenericErr
    ELSE IF major # RANDR_MAJOR_VERSION /\ minor < RANDR_MINOR_VERSION
         THEN UnsupportedVersion(major, minor)
         ELSE OkRes

\* query_version: the checks on the reply
QueryVersion(replyOk, major, minor) ==
    IF ~replyOk THEN GenericErr
    ELSE IF major # RANDR_MAJOR_VERSION \/ minor < RANDR_MINOR_VERSION
         THEN UnsupportedVersion(major, minor)
         ELSE OkRes

\* ------------------------------------------------------------- the server
\* the table CRTC id holds when the program starts
InitTable(id, size) ==
    [c \in Channels |-> [k \in 1..size |-> (7001 * id + 1300 * k + 17 * c) % (U16Max + 1)]]

\* mutant: the reply is the table the CRTC held when the program started
GetCrtcGammaInitial(h, id) ==
    LET t == InitTable(id, Len(h[id][1]))
    IN  [size |-> Len(t[1]), red |-> t[1], green |-> t[2], blue |-> t[3]]

\* reply to get_crtc_gamma: size and the three channel arrays of that size
GetCrtcGamma(h, id) ==
    [size |-> Len(h[id][1]), red |-> h[id][1], green |-> h[id][2], blue |-> h[id][3]]

\* effect of a checked set_crtc_gamma request
SetCrtcGamma(h, id, ramps, ok) == IF ok THEN [h EXCEPT ![id] = ramps] ELSE h

Req(kind, id, ramps, ok) == [kind |-> kind, id |-> id, ramps |-> ramps, ok |-> ok]

\* the handle lists get_screen_resources may report: the CRTCs of the screen
\* in the server's order, any of them possibly absent
RECURSIVE Enums(_)
Enums(n) ==
    IF n = 0 THEN {<<>>}
    ELSE Enums(n - 1) \cup
         {Append(s, c) : s \in {t \in Enums(n - 1) : Len(t) = n - 1},
                         c \in CrtcIds}

IsAscending(s) == \A i, j \in 1..Len(s) : i < j => s[i] < s[j]

CrtcLists == {s \in Enums(MaxCrtcs) : IsAscending(s)}

\* ------------------------------------------------------------------ start
\* mutant: scratch is allocated empty instead of copied from the reply
NewCrtcEmptyScratch(id, gamma) ==
    [id          |-> id,
     ramp_size   |-> gamma.size,
     saved_ramps |-> <<gamma.red, gamma.green, gamma.blue>>,
     scratch     |-> <<<<>>, <<>>, <<>>>>]

\* the Crtc record pushed for one get_crtc_gamma reply
NewCrtc(id, gamma) ==
    [id          |-> id,
     ramp_size   |-> gamma.size,
     saved_ramps |-> <<gamma.red, gamma.green, gamma.blue>>,
     scratch     |-> <<gamma.red, gamma.green, gamma.blue>>]

\* mutant: start appends to the registry it finds
StartVecKeep(old) == old

\* the vector self.crtcs is set to before the loop over the handles
StartVec(old) == <<>>

\* mutant: the error of a request is dropped and the loop goes on
PropagateNever(ok) == FALSE

\* `?` on a request's result: TRUE when the error leaves the function
Propagate(ok) == ~ok

\* the loop over screen_resources.crtcs(), from handle j on; the request for
\* handle failAt (if any) fails
RECURSIVE StartLoop(_, _, _, _, _, _)
StartLoop(j, handles, cs, h, log, failAt) ==
    IF j > Len(handles) THEN [crtcs |-> cs, reqs |-> log, res |-> OkRes]
    ELSE LET id  == handles[j]
             ok  == j # failAt
             log2 == Append(log, Req("get_crtc_gamma", id, <<>>, ok))
         IN  IF Propagate(ok)
             THEN [crtcs |-> cs, reqs |-> log2, res |-> GenericErr]
             ELSE IF ok
                  THEN StartLoop(j + 1, handles,
                                 Append(cs, NewCrtc(id, GetCrtcGamma(h, id))),
                                 h, log2, failAt)
                  ELSE StartLoop(j + 1, handles, cs, h, log2, failAt)

\* mutant: self.crtcs is emptied before get_screen_resources is answered
StartCallClearsFirst(cs, h, resOk, handles, failAt) ==
    LET log == <<Req("get_screen_resources", 0, <<>>, resOk)>>
    IN  IF Propagate(resOk)
        THEN [crtcs |-> StartVec(cs), reqs |-> log, res |-> GenericErr]
        ELSE StartLoop(1, handles, StartVec(cs), h, log, failAt)

\* RandrState::start
StartCall(cs, h, resOk, handles, failAt) ==
    LET log == <<Req("get_screen_resources", 0, <<>>, resOk)>>
    IN  IF Propagate(resOk)
        THEN [crtcs |-> cs, reqs |-> log, res |-> GenericErr]
        ELSE StartLoop(1, handles, StartVec(cs), h, log, failAt)

\* -------------------------------------------------------- set_temperature
\* the ramps pushed for one CRTC: the base ramp, then colorramp::fill
NewScratch(crtc, setting) == Fill(BaseRamps(crtc), setting, crtc.ramp_size)

\* mutant: the loop borrows saved_ramps instead of scratch
WithSavedRamps(crtc, new) == [crtc EXCEPT !.saved_ramps = new]

\* the record after the loop body wrote through `ref mut r, g, b`, the
\* borrows of crtc.scratch
WithScratch(crtc, new) == [crtc EXCEPT !.scratch = new]

\* the loop over self.crtcs, from record j on
RECURSIVE SetLoop(_, _, _, _, _, _, _)
SetLoop(j, cs, h, log, bs, setting, failAt) ==
    IF j > Len(cs) THEN [crtcs |-> cs, hw |-> h, reqs |-> log, bases |-> bs, res |-> OkRes]
    ELSE LET crtc == cs[j]
             new  == NewScratch(crtc, setting)
             cs2  == [cs EXCEPT ![j] = WithScratch(crtc, new)]
             ok   == j # failAt
             h2   == SetCrtcGamma(h, crtc.id, new, ok)
             log2 == Append(log, Req("set_crtc_gamma", crtc.id, new, ok))
             bs2  == Append(bs, BaseRamps(crtc))
         IN  IF Propagate(ok)
             THEN [crtcs |-> cs2, hw |-> h2, reqs |-> log2, bases |-> bs2, res |-> GenericErr]
             ELSE SetLoop(j + 1, cs2, h2, log2, bs2, setting, failAt)

\* RandrState::set_crtc_temperatures
SetCrtcTemperatures(cs, h, setting, failAt) ==
    SetLoop(1, cs, h, <<>>, <<>>, setting, failAt)

\* ---------------------------------------------------------------- restore
\* mutant: restore sends the scratch buffers
RestoreRampsScratch(crtc) == crtc.scratch

\* the ramps restore sends for one CRTC
RestoreRamps(crtc) == crtc.saved_ramps

\* mutant: restore empties the registry
RestoreVecCleared(cs) == <<>>

\* self.crtcs after restore (restore takes &self)
RestoreVec(cs) == cs

\* the loop over self.crtcs, from record j on
RECURSIVE RestoreLoop(_, _, _, _, _)
RestoreLoop(j, cs, h, log, failAt) ==
    IF j > Len(cs) THEN [crtcs |-> RestoreVec(cs), hw |-> h, reqs |-> log, res |-> OkRes]
    ELSE LET crtc == cs[j]
             ok   == j # failAt
             h2   == SetCrtcGamma(h, crtc.id, RestoreRamps(crtc), ok)
             log2 == Append(log, Req("set_crtc_gamma", crtc.id, RestoreRamps(crtc), ok))
         IN  IF Propagate(ok)
             THEN [crtcs |-> RestoreVec(cs), hw |-> h2, reqs |-> log2, res |-> GenericErr]
             ELSE RestoreLoop(j + 1, cs, h2, log2, failAt)

\* RandrState::restore
RestoreCall(cs, h, failAt) == RestoreLoop(1, cs, h, <<>>, failAt)

\* ------------------------------------------------------------------- init
\* mutant: init() registers a placeholder CRTC
InitVecPlaceholder ==
    <<[id |-> 1, ramp_size |-> 0, saved_ramps |-> <<<<>>, <<>>, <<>>>>,
       scratch |-> <<<<>>, <<>>, <<>>>>]>>

\* the crtcs field of the RandrState init() builds
InitVec == <<>>

\* the steps init() takes, as entries of the request log
ConnectStep(connOk) == Req("connect", 0, <<>>, connOk)
QueryVersionStep(ver) == Req("query_version", 0, <<>>, ver.kind = "Ok")
CreateWindowStep == Req("create_window", 0, <<>>, TRUE)

\* mutant: the dummy window is created before the version is queried
InitCallWindowFirst(connOk, replyOk, major, minor) ==
    LET ver == QueryVersion(replyOk, major, minor)
    IN  IF ~connOk
        THEN [res |-> ConnErr, window |-> FALSE, queried |-> FALSE,
              reqs |-> <<ConnectStep(connOk)>>]
        ELSE IF ver.kind # "Ok"
        THEN [res |-> ver, window |-> TRUE, queried |-> TRUE,
              reqs |-> <<ConnectStep(connOk), CreateWindowStep, QueryVersionStep(ver)>>]
        ELSE [res |-> OkRes, window |-> TRUE, queried |-> TRUE,
              reqs |-> <<ConnectStep(connOk), CreateWindowStep, QueryVersionStep(ver)>>]

\* RandrState::init
InitCall(connOk, replyOk, major, minor) ==
    LET ver == QueryVersion(replyOk, major, minor)
    IN  IF ~connOk
        THEN [res |-> ConnErr, window |-> FALSE, queried |-> FALSE,
              reqs |-> <<ConnectStep(connOk)>>]
        ELSE IF ver.kind # "Ok"
        THEN [res |-> ver, window |-> FALSE, queried |-> TRUE,
              reqs |-> <<ConnectStep(connOk), QueryVersionStep(ver)>>]
        ELSE [res |-> OkRes, window |-> TRUE, queried |-> TRUE,
              reqs |-> <<ConnectStep(connOk), QueryVersionStep(ver), CreateWindowStep>>]

\* --------------------------------------------------------------- behaviour
NoArg == [setting |-> "none", handles |-> <<>>, failAt |-> 0, resOk |-> TRUE,
          connOk |-> TRUE, replyOk |-> TRUE, major |-> 0, minor |-> 0]
NoCall == [op |-> "none", res |-> OkRes, reqs |-> <<>>]

\* the screens explored, and the gamma table sizes of the CRTCs of screen k:
\* the CRTCs of one screen differ in size, and sizes run from MaxRampSize
\* down and around to 0 (a CRTC without gamma support)
Screens == 0..1
ScreenSizes(k) == [id \in CrtcIds |-> (MaxRampSize - k + id - 1) % (MaxRampSize + 1)]

\* no base ramp loop under way
NoRamp == [n |-> 0, i |-> 0, raw |-> 0, v |-> 0, below |-> 0]

InitState ==
    /\ phase = "none"
    /\ stdout = <<>>
    /\ winDummy = FALSE
    /\ \E k \in Screens :
          hw = [id \in CrtcIds |-> InitTable(id, ScreenSizes(k)[id])]
    /\ crtcs = <<>>
    /\ lastOp = "none"
    /\ lastRes = OkRes
    /\ reqs = <<>>
    /\ bases = <<>>
    /\ lastArg = NoArg
    /\ pre = [hw |-> hw, crtcs |-> <<>>]
    /\ prev = NoCall
    /\ started = [res |-> NoneRes, hw |-> hw]
    /\ nStart = 0
    /\ nCalls = 0

Init == InitState /\ ramp = NoRamp

\* init(): connect, query the version, create the dummy window
DoInit ==
    /\ phase = "none"
    /\ \E connOk, replyOk \in BOOLEAN, major \in 0..MaxMajor, minor \in 0..MaxMinor :
          \E out \in {InitCall(connOk, replyOk, major, minor)} :
              /\ phase' = IF out.res.kind = "Ok" THEN "ready" ELSE "failed"
              /\ lastRes' = out.res
              /\ lastArg' = [NoArg EXCEPT !.connOk = connOk,
                                          !.replyOk = out.queried => replyOk,
                                          !.major = IF out.queried /\ replyOk THEN major ELSE 0,
                                          !.minor = IF out.queried /\ replyOk THEN minor ELSE 0]
              /\ winDummy' = out.window
              /\ reqs' = out.reqs
              /\ crtcs' = InitVec
    /\ lastOp' = "init"
    /\ pre' = [hw |-> hw, crtcs |-> crtcs]
    /\ UNCHANGED <<stdout, hw, bases, prev, started, nStart, nCalls, ramp>>

Called(op) ==
    /\ lastOp' = op
    /\ pre' = [hw |-> hw, crtcs |-> crtcs]
    /\ prev' = IF lastOp = "restore"
               THEN [op |-> lastOp, res |-> lastRes, reqs |-> reqs]
               ELSE NoCall
    /\ nCalls < MaxCalls
    /\ nCalls' = nCalls + 1
    /\ UNCHANGED <<phase, winDummy, ramp>>

\* GammaMethod::start
Start ==
    /\ phase = "ready"
    /\ \E resOk \in BOOLEAN :
       \E handles \in (IF resOk THEN CrtcLists ELSE {<<>>}) :
       \E failAt \in 0..Len(handles) :
          \E out \in {StartCall(crtcs, hw, resOk, handles, failAt)} :
              /\ crtcs' = out.crtcs
              /\ lastRes' = out.res
              /\ reqs' = out.reqs
              /\ started' = [res |-> out.res, hw |-> hw]
              /\ lastArg' = [NoArg EXCEPT !.resOk = resOk,
                                          !.handles = handles,
                                          !.failAt = failAt]
    /\ bases' = <<>>
    /\ nStart' = nStart + 1
    /\ Called("start")
    /\ UNCHANGED <<stdout, hw>>

\* GammaMethod::set_temperature
SetTemperature ==
    /\ phase = "ready"
    /\ \E setting \in Settings, failAt \in 0..Len(crtcs) :
          \E out \in {SetCrtcTemperatures(crtcs, hw, setting, failAt)} :
              /\ crtcs' = out.crtcs
              /\ hw' = out.hw
              /\ lastRes' = out.res
              /\ reqs' = out.reqs
              /\ bases' = out.bases
              /\ lastArg' = [NoArg EXCEPT !.setting = setting, !.failAt = failAt]
    /\ Called("set_temperature")
    /\ UNCHANGED <<stdout, started, nStart>>

\* GammaMethod::restore
Restore ==
    /\ phase = "ready"
    /\ \E failAt \in 0..Len(crtcs) :
          \E out \in {RestoreCall(crtcs, hw, failAt)} :
              /\ crtcs' = out.crtcs
              /\ hw' = out.hw
              /\ lastRes' = out.res
              /\ reqs' = out.reqs
              /\ lastArg' = [NoArg EXCEPT !.failAt = failAt]
    /\ bases' = <<>>
    /\ Called("restore")
    /\ UNCHANGED <<stdout, started, nStart>>

\* ----------------------------------------------------------- DummyMethod
\* what a DummyMethod call does: the lines printed after it, the protocol
\* requests it issues, its result (the methods return nothing and cannot fail)
DummyStartCall(out) ==
    [stdout |-> Append(out, <<"WARNING: Using dummy gamma method!">>),
     reqs |-> <<>>, res |-> OkRes]

\* mutant: the dummy method sends the ramp request as well as printing
DummySetTemperaturePushes(out, setting) ==
    [stdout |-> Append(out, <<"Temperature: ", setting>>),
     reqs |-> <<Req("set_crtc_gamma", 1, <<<<>>, <<>>, <<>>>>, TRUE)>>, res |-> OkRes]

DummySetTemperatureCall(out, setting) ==
    [stdout |-> Append(out, <<"Temperature: ", setting>>),
     reqs |-> <<>>, res |-> OkRes]

DummyRestoreCall(out) == [stdout |-> out, reqs |-> <<>>, res |-> OkRes]

\* GammaMethodProvider::init for DummyMethod
DoInitDummy ==
    /\ phase = "none"
    /\ phase' = "dummy"
    /\ lastOp' = "dummy_init"
    /\ lastRes' = OkRes
    /\ lastArg' = NoArg
    /\ reqs' = <<>>
    /\ pre' = [hw |-> hw, crtcs |-> crtcs]
    /\ UNCHANGED <<stdout, winDummy, hw, crtcs, bases, prev, started, nStart, nCalls, ramp>>

\* GammaMethod::start for DummyMethod
DummyStart ==
    /\ phase = "dummy"
    /\ \E out \in {DummyStartCall(stdout)} :
          /\ stdout' = out.stdout
          /\ reqs' = out.reqs
          /\ lastRes' = out.res
    /\ lastArg' = NoArg
    /\ nStart' = nStart + 1
    /\ Called("start")
    /\ UNCHANGED <<hw, crtcs, bases, started>>

\* GammaMethod::set_temperature for DummyMethod
DummySetTemperature ==
    /\ phase = "dummy"
    /\ \E setting \in Settings :
       \E out \in {DummySetTemperatureCall(stdout, setting)} :
          /\ stdout' = out.stdout
          /\ reqs' = out.reqs
          /\ lastRes' = out.res
          /\ lastArg' = [NoArg EXCEPT !.setting = setting]
    /\ Called("set_temperature")
    /\ UNCHANGED <<hw, crtcs, bases, started, nStart>>

\* GammaMethod::restore for DummyMethod
DummyRestore ==
    /\ phase = "dummy"
    /\ \E out \in {DummyRestoreCall(stdout)} :
          /\ stdout' = out.stdout
          /\ reqs' = out.reqs
          /\ lastRes' = out.res
    /\ lastArg' = NoArg
    /\ Called("restore")
    /\ UNCHANGED <<hw, crtcs, bases, started, nStart>>

Next ==
    \/ DoInit \/ Start \/ SetTemperature \/ Restore
    \/ DoInitDummy \/ DummyStart \/ DummySetTemperature \/ DummyRestore

Spec == Init /\ [][Next]_vars

\* ------------------------------------------------------ the base ramp loop
\* ramp sizes the loop is run for, up to the largest a u16 size field holds
RampSizes == {1, 2, 3, 255, 256, 257, 1024, 4096, U16Max}

\* the loop state at index i of a ramp of size n; below is the value written
\* at index i - 1
RampAt(n, i, below) ==
    [n |-> n, i |-> i, raw |-> BaseValueRaw(i, n), v |-> BaseValue(i, n), below |-> below]

InitRamp == InitState /\ \E n \in RampSizes : ramp = RampAt(n, 0, 0)

\* one iteration of `for i in 0 .. r.len()`
RampStep ==
    /\ ramp.i + 1 < ramp.n
    /\ ramp' = RampAt(ramp.n, ramp.i + 1, ramp.v)
    /\ UNCHANGED <<phase, stdout, winDummy, hw, crtcs, lastOp, lastRes, reqs, bases,
                   lastArg, pre, prev, started, nStart, nCalls>>

NextRamp == RampStep

SpecRamp == InitRamp /\ [][NextRamp]_vars

\* ------------------------------------------------------------------ claims
Registered == 1..Len(crtcs)

\* C1: after exactly one start, which succeeded, and any set_temperature
\* calls, a restore whose requests all succeed leaves the hardware table of
\* every registered controller equal, channel by channel, to the table the
\* controller held when start fetched it.
C1_RestoreReturnsStartTables ==
    (lastOp = "restore" /\ lastRes.kind = "Ok" /\ nStart = 1 /\ started.res.kind = "Ok")
    => \A j \in Registered : \A c \in Channels :
          hw[crtcs[j].id][c] = started.hw[crtcs[j].id][c]

\* a successful restore after one successful start that undid a pushed ramp
\* on both controllers
C1_Witness ==
    /\ lastOp = "restore" /\ lastRes.kind = "Ok"
    /\ nStart = 1 /\ started.res.kind = "Ok"
    /\ Len(crtcs) = 2
    /\ \A j \in Registered :
          crtcs[j].ramp_size > 0 /\ hw[crtcs[j].id] # pre.hw[crtcs[j].id]

\* C2: against the required version (1,3), version negotiation succeeds iff
\* the reported major is 1 and the reported minor is at least 3; otherwise it
\* fails with UnsupportedVersion carrying the reported pair; (1,2) fails with
\* UnsupportedVersion(1,2), (1,3) and (1,4) succeed, (2,0) fails.
C2_VersionNegotiation ==
    (lastOp = "init" /\ lastArg.connOk /\ lastArg.replyOk)
    => LET major == lastArg.major
           minor == lastArg.minor
       IN  /\ (lastRes.kind = "Ok") <=> (major = 1 /\ minor >= 3)
           /\ lastRes.kind # "Ok" =>
                 lastRes = [kind |-> "UnsupportedVersion", major |-> major, minor |-> minor]
           /\ (major = 1 /\ minor = 2) =>
                 lastRes = [kind |-> "UnsupportedVersion", major |-> 1, minor |-> 2]
           /\ (major = 1 /\ minor \in {3, 4}) => lastRes.kind = "Ok"
           /\ major = 2 => lastRes.kind = "UnsupportedVersion"

\* init() against a server that reported version 1.2
C2_Witness ==
    /\ lastOp = "init" /\ lastArg.connOk /\ lastArg.replyOk
    /\ lastArg.major = 1 /\ lastArg.minor = 2
    /\ lastRes.kind = "UnsupportedVersion"
    /\ phase = "failed"

\* number of requests of the last call that name controller id
RequestsFor(id) == Cardinality({i \in 1..Len(reqs) : reqs[i].id = id})

\* C3: in set_temperature over n controllers, if the request of the k-th
\* controller is the first to fail, controllers 1..k-1 have each received
\* exactly one set-gamma request with the new ramp, which stays applied,
\* controllers k+1..n receive no request, and the call returns a protocol
\* request error; if no request fails, every controller receives exactly one
\* request and the call succeeds.
C3_FirstFailureAborts ==
    lastOp = "set_temperature"
    => LET n == Len(crtcs)
           k == lastArg.failAt
       IN  /\ \A i \in 1..Len(reqs) : reqs[i].kind = "set_crtc_gamma"
           /\ k = 0 =>
                 /\ lastRes.kind = "Ok"
                 /\ \A j \in 1..n :
                       /\ RequestsFor(crtcs[j].id) = 1
                       /\ reqs[j] = [kind |-> "set_crtc_gamma", id |-> crtcs[j].id,
                                     ramps |-> crtcs[j].scratch, ok |-> TRUE]
                       /\ hw[crtcs[j].id] = reqs[j].ramps
           /\ k > 0 =>
                 /\ lastRes.kind = "Generic"
                 /\ Len(reqs) = k /\ ~reqs[k].ok /\ reqs[k].id = crtcs[k].id
                 /\ \A j \in 1..(k - 1) :
                       /\ RequestsFor(crtcs[j].id) = 1
                       /\ reqs[j] = [kind |-> "set_crtc_gamma", id |-> crtcs[j].id,
                                     ramps |-> crtcs[j].scratch, ok |-> TRUE]
                       /\ hw[crtcs[j].id] = reqs[j].ramps
                 /\ \A j \in (k + 1)..n :
                       /\ RequestsFor(crtcs[j].id) = 0
                       /\ hw[crtcs[j].id] = pre.hw[crtcs[j].id]

\* set_temperature over two controllers, the second request failing after
\* the first changed the hardware
C3_Witness ==
    /\ lastOp = "set_temperature" /\ Len(crtcs) = 2 /\ lastArg.failAt = 2
    /\ crtcs[1].ramp_size > 0 /\ crtcs[2].ramp_size > 0
    /\ hw[crtcs[1].id] # pre.hw[crtcs[1].id]
    /\ lastRes.kind = "Generic"

\* C4: when start fails because fetching the gamma table of some handle
\* fails, no partial registry is published: the controller set holds none of
\* the controllers whose fetch succeeded before the failing one.
C4_NoPartialRegistry ==
    (lastOp = "start" /\ lastArg.resOk /\ lastArg.failAt > 0)
    => \A j \in 1..(lastArg.failAt - 1) : \A i \in Registered :
          crtcs[i].id # lastArg.handles[j]

\* round(p / q) for p >= 0, q > 0, halves away from zero
Round(p, q) == (2 * p + q) \div (2 * q)

\* C5 as stated: every base value set_temperature writes before the transform
\* is round((i / ramp_size) * 65536).
C5_BaseRounded ==
    lastOp = "set_temperature"
    => \A j \in 1..Len(bases) : \A c \in Channels :
          \A i \in 0..(crtcs[j].ramp_size - 1) :
             bases[j][c][i + 1] = Round(i * 65536, crtcs[j].ramp_size)

\* C5 amended: every base value set_temperature writes before the transform
\* is (i / ramp_size) * 65536 truncated toward zero; for ramp_size 4 the
\* values are 0, 16384, 32768, 49152.
C5_BaseTruncated ==
    lastOp = "set_temperature"
    => \A j \in 1..Len(bases) : \A c \in Channels :
          /\ Len(bases[j][c]) = crtcs[j].ramp_size
          /\ \A i \in 0..(crtcs[j].ramp_size - 1) :
                bases[j][c][i + 1] = (i * 65536) \div crtcs[j].ramp_size
          /\ crtcs[j].ramp_size = 4 => bases[j][c] = <<0, 16384, 32768, 49152>>

\* set_temperature visited a controller of ramp size 4 and one of ramp size
\* 3, where rounding and truncation differ
C5_Witness ==
    /\ lastOp = "set_temperature" /\ Len(bases) = 2
    /\ \E j \in Registered : crtcs[j].ramp_size = 4
    /\ \E j \in Registered :
          /\ crtcs[j].ramp_size = 3
          /\ bases[j][1][3] # Round(2 * 65536, 3)

\* C6: two restore calls in a row, all requests succeeding, issue identical
\* sequences of set-gamma requests (same controller ids in the same order,
\* equal channel arrays), and restore does not change the controller set.
C6_RestoreTwice ==
    /\ lastOp = "restore" => crtcs = pre.crtcs
    /\ (lastOp = "restore" /\ lastRes.kind = "Ok" /\ prev.op = "restore" /\ prev.res.kind = "Ok")
       => /\ Len(reqs) = Len(prev.reqs)
          /\ \A i \in 1..Len(reqs) :
                /\ reqs[i].kind = "set_crtc_gamma" /\ prev.reqs[i].kind = "set_crtc_gamma"
                /\ reqs[i].id = prev.reqs[i].id
                /\ \A c \in Channels : reqs[i].ramps[c] = prev.reqs[i].ramps[c]
          /\ Len(reqs) = Len(crtcs)

\* the second of two successful restores over two controllers with tables
C6_Witness ==
    /\ lastOp = "restore" /\ lastRes.kind = "Ok"
    /\ prev.op = "restore" /\ prev.res.kind = "Ok"
    /\ Len(reqs) = 2
    /\ \A i \in 1..Len(reqs) : Len(reqs[i].ramps[1]) > 0

\* the linear ramp of length n
Linear(n) == [k \in 1..n |-> ((k - 1) * 65536) \div n]

\* C7: the ramp set_temperature pushes for a controller depends only on the
\* controller's ramp_size and the setting, not on saved_ramp, the previous
\* scratch contents or earlier calls; with the identity transform it is the
\* linear base ramp for that ramp_size in all three channels.
C7_PushedRampFromSizeAndSetting ==
    lastOp = "set_temperature"
    => \A j \in 1..Len(reqs) :
          LET n == crtcs[j].ramp_size
              base == <<Linear(n), Linear(n), Linear(n)>>
          IN  /\ reqs[j].ramps = Fill(base, lastArg.setting, n)
              /\ lastArg.setting = "neutral" => reqs[j].ramps = base

\* set_temperature with the identity transform pushed, over scratch left by
\* an earlier call, a ramp that is not the saved ramp
C7_Witness ==
    /\ lastOp = "set_temperature" /\ lastArg.setting = "neutral"
    /\ Len(reqs) = 2
    /\ \A j \in 1..Len(reqs) :
          /\ crtcs[j].ramp_size > 0
          /\ reqs[j].ramps # crtcs[j].saved_ramps
          /\ pre.crtcs[j].scratch # crtcs[j].saved_ramps
          /\ pre.crtcs[j].scratch # reqs[j].ramps

\* C8: for every registered controller the three saved_ramp arrays and the
\* three scratch arrays have length ramp_size, after start and after every
\* set_temperature call, successful or failed.
C8_RampLengths ==
    \A j \in Registered : \A c \in Channels :
       /\ Len(crtcs[j].saved_ramps[c]) = crtcs[j].ramp_size
       /\ Len(crtcs[j].scratch[c]) = crtcs[j].ramp_size

\* a failed set_temperature over two controllers with tables
C8_Witness ==
    /\ lastOp = "set_temperature" /\ lastRes.kind = "Generic"
    /\ Len(crtcs) = 2
    /\ \A j \in Registered :
          crtcs[j].ramp_size >= 3 /\ crtcs[j].scratch # pre.crtcs[j].scratch

\* C9: every controller in the controller set after a successful start has
\* ramp_size > 0.
C9_RampSizePositive ==
    (lastOp = "start" /\ lastRes.kind = "Ok")
    => \A j \in Registered : crtcs[j].ramp_size > 0

\* C10: set_temperature and restore called after init and before start work
\* on an empty controller set: no protocol request, no state change, success.
C10_BeforeStartNoOp ==
    (nStart = 0 /\ lastOp \in {"set_temperature", "restore"})
    => /\ pre.crtcs = <<>>
       /\ reqs = <<>>
       /\ lastRes.kind = "Ok"
       /\ hw = pre.hw
       /\ crtcs = pre.crtcs

\* set_temperature after a restore, both before any start
C10_Witness ==
    /\ nStart = 0 /\ lastOp = "set_temperature" /\ prev.op = "restore"
    /\ phase = "ready" /\ winDummy

\* the kinds of the requests of the last call, in order
ReqKinds == [i \in 1..Len(reqs) |-> reqs[i].kind]

\* C11: init connects, then negotiates the version, then creates the scope
\* resource; it returns an instance, with an empty controller set, only if
\* the connection and the version negotiation both succeeded; it fails with a
\* connection error when the connection fails and with UnsupportedVersion
\* when the server is underversioned, and in either failure no scope resource
\* is created and no instance is returned.
C11_InitOrder ==
    /\ phase = "failed" => ~winDummy
    /\ lastOp = "init" =>
          LET versionOk == lastArg.major = 1 /\ lastArg.minor >= 3
          IN  /\ phase \in {"ready", "failed"}
              /\ (phase = "ready") <=> (lastArg.connOk /\ lastArg.replyOk /\ versionOk)
              /\ phase = "ready" =>
                    /\ lastRes.kind = "Ok" /\ winDummy /\ crtcs = <<>>
                    /\ ReqKinds = <<"connect", "query_version", "create_window">>
                    /\ \A i \in 1..Len(reqs) : reqs[i].ok
              /\ ~lastArg.connOk =>
                    /\ lastRes.kind = "Conn"
                    /\ ReqKinds = <<"connect">>
              /\ (lastArg.connOk /\ lastArg.replyOk /\ ~versionOk) =>
                    /\ lastRes.kind = "UnsupportedVersion"
                    /\ ReqKinds = <<"connect", "query_version">>
              /\ phase = "failed" =>
                    /\ lastRes.kind # "Ok"
                    /\ \A i \in 1..Len(reqs) : reqs[i].kind # "create_window"

\* init() against a server of another major version: no window, no instance
C11_Witness ==
    /\ lastOp = "init" /\ lastArg.connOk /\ lastArg.replyOk
    /\ lastArg.major = 2 /\ lastArg.minor = 4
    /\ lastRes.kind = "UnsupportedVersion"
    /\ phase = "failed" /\ ~winDummy
    /\ ReqKinds = <<"connect", "query_version">>

\* C12: on the dummy backend, whatever start, set_temperature and restore
\* calls are made, no protocol request is issued, no hardware table changes,
\* and every call succeeds.
C12_DummyTouchesNothing ==
    phase = "dummy"
    => /\ reqs = <<>>
       /\ lastRes.kind = "Ok"
       /\ hw = pre.hw /\ hw = started.hw
       /\ crtcs = <<>> /\ ~winDummy

\* the dummy backend after start, set_temperature and restore
C12_Witness ==
    /\ phase = "dummy" /\ lastOp = "restore" /\ nCalls = 3 /\ nStart = 1
    /\ Len(stdout) = 2
    /\ stdout[2] = <<"Temperature: ", "warm">>

\* C13: in restore over n controllers, if the request of the k-th controller
\* is the first to fail, controllers 1..k-1 have been restored to their
\* saved_ramp, controllers k+1..n receive no request and keep the ramp they
\* held before the call, and restore returns a protocol request error.
C13_RestoreFirstFailureAborts ==
    (phase = "ready" /\ lastOp = "restore" /\ lastArg.failAt > 0)
    => LET n == Len(crtcs)
           k == lastArg.failAt
       IN  /\ lastRes.kind = "Generic"
           /\ Len(reqs) = k /\ ~reqs[k].ok /\ reqs[k].id = crtcs[k].id
           /\ \A j \in 1..(k - 1) :
                 /\ reqs[j].ok /\ reqs[j].id = crtcs[j].id
                 /\ reqs[j].ramps = crtcs[j].saved_ramps
                 /\ hw[crtcs[j].id] = crtcs[j].saved_ramps
           /\ \A j \in (k + 1)..n :
                 /\ RequestsFor(crtcs[j].id) = 0
                 /\ hw[crtcs[j].id] = pre.hw[crtcs[j].id]

\* restore over two controllers holding pushed ramps: the first request
\* restored the first controller, the second failed
C13_Witness ==
    /\ phase = "ready" /\ lastOp = "restore" /\ lastArg.failAt = 2 /\ Len(crtcs) = 2
    /\ crtcs[1].ramp_size > 0 /\ crtcs[2].ramp_size > 0
    /\ hw[crtcs[1].id] # pre.hw[crtcs[1].id]
    /\ hw[crtcs[2].id] # crtcs[2].saved_ramps

\* a Crtc record without its scratch buffers
Fixed(crtc) == [id |-> crtc.id, ramp_size |-> crtc.ramp_size, saved_ramps |-> crtc.saved_ramps]

\* C14: once start captured a controller's saved_ramp, no set_temperature or
\* restore call, succeeding or failing, changes that controller's saved_ramp,
\* id or ramp_size, nor the membership and order of the controller set;
\* set_temperature changes only scratch contents.
C14_SavedRampWriteOnce ==
    (phase = "ready" /\ lastOp \in {"set_temperature", "restore"})
    => /\ Len(crtcs) = Len(pre.crtcs)
       /\ \A j \in Registered : Fixed(crtcs[j]) = Fixed(pre.crtcs[j])
       /\ lastOp = "restore" => crtcs = pre.crtcs

\* a failed set_temperature that rewrote the scratch of both controllers
C14_Witness ==
    /\ phase = "ready" /\ lastOp = "set_temperature" /\ lastRes.kind = "Generic"
    /\ Len(crtcs) = 2 /\ lastArg.failAt = 2
    /\ \A j \in Registered :
          /\ crtcs[j].ramp_size > 0
          /\ crtcs[j].scratch # pre.crtcs[j].scratch
          /\ crtcs[j].saved_ramps = pre.crtcs[j].saved_ramps

\* C15: a fresh successful start fully replaces the controller set: it then
\* holds exactly one record per handle of that start's enumeration, in
\* enumeration order, each built from that start's reply, and no record of an
\* earlier start survives.
C15_StartReplaces ==
    (phase = "ready" /\ lastOp = "start" /\ lastRes.kind = "Ok")
    => /\ Len(crtcs) = Len(lastArg.handles)
       /\ \A j \in Registered :
             /\ crtcs[j].id = lastArg.handles[j]
             /\ crtcs[j].ramp_size = Len(hw[crtcs[j].id][1])
             /\ crtcs[j].saved_ramps = hw[crtcs[j].id]
             /\ crtcs[j].scratch = hw[crtcs[j].id]

\* a second successful start that enumerated CRTC 2 alone, over a registry
\* of two controllers whose tables had been rewritten since the first start
C15_Witness ==
    /\ phase = "ready" /\ lastOp = "start" /\ lastRes.kind = "Ok" /\ nStart = 2
    /\ Len(pre.crtcs) = 2 /\ Len(crtcs) = 1
    /\ crtcs[1].id = 2 /\ crtcs[1].ramp_size > 0
    /\ crtcs[1].saved_ramps # pre.crtcs[2].saved_ramps

\* C16: a second successful start captures as saved_ramp the table each
\* controller holds at that start; a successful restore after it leaves each
\* controller with that table (after start, set_temperature, start, restore:
\* the ramp set_temperature pushed), and the table held before the first
\* start is no longer replayed.
C16_SecondStartRecaptures ==
    (phase = "ready" /\ nStart >= 2 /\ started.res.kind = "Ok")
    => \A j \in Registered :
          /\ crtcs[j].saved_ramps = started.hw[crtcs[j].id]
          /\ (lastOp = "restore" /\ lastRes.kind = "Ok")
             => hw[crtcs[j].id] = started.hw[crtcs[j].id]

\* start, set_temperature, start, restore: the restore replayed the pushed
\* ramps, not the tables held before the first start
C16_Witness ==
    /\ phase = "ready" /\ nCalls = 4 /\ nStart = 2 /\ started.res.kind = "Ok"
    /\ lastOp = "restore" /\ lastRes.kind = "Ok"
    /\ Len(crtcs) = 2
    /\ \A j \in Registered :
          /\ crtcs[j].ramp_size > 0
          /\ hw[crtcs[j].id] # InitTable(crtcs[j].id, crtcs[j].ramp_size)
          /\ hw[crtcs[j].id] = crtcs[j].saved_ramps
          /\ reqs[j].ramps = hw[crtcs[j].id]

\* C18: when start fails at the screen-resources request itself, the
\* controller set is left as it was before the call, so a registry populated
\* by an earlier successful start stays in place for restore.
C18_EnumerationFailureKeepsRegistry ==
    (phase = "ready" /\ lastOp = "start" /\ ~lastArg.resOk)
    => /\ lastRes.kind = "Generic"
       /\ ReqKinds = <<"get_screen_resources">>
       /\ crtcs = pre.crtcs
       /\ hw = pre.hw

\* a second start failing at get_screen_resources over a registry of two
C18_Witness ==
    /\ phase = "ready" /\ lastOp = "start" /\ ~lastArg.resOk /\ nStart = 2
    /\ Len(crtcs) = 2
    /\ \A j \in Registered : crtcs[j].ramp_size > 0

\* C17: for every ramp_size in 1..65535 and every index i below it, the base
\* value fits an unsigned 16-bit channel without wrap-around in the
\* conversion, is 0 at i = 0, and is non-decreasing in i.
C17_BaseValueInRange ==
    ramp.n > 0
    => /\ ramp.i \in 0..(ramp.n - 1)
       /\ ramp.raw \in 0..65535
       /\ ramp.v = ramp.raw
       /\ ramp.i = 0 => ramp.v = 0
       /\ ramp.below <= ramp.v

\* the last entry of the largest ramp
C17_Witness ==
    /\ ramp.n = 65535 /\ ramp.i = 65534
    /\ ramp.v = 65534 /\ ramp.below = 65533

====
